---------------------------- MODULE Spec2Model ----------------------------
(***************************************************************************)
(* A model of colorize_theme.py: the two-stage color lookup of             *)
(* ColorMappings (color name -> color value, element binding -> color      *)
(* name), the theme rewriter apply_to_theme, and the entry point main.     *)
(*                                                                         *)
(* A Python str is a sequence of one-character strings, so that            *)
(* startswith, count and split are computed and not assumed.  A dict that  *)
(* the program iterates (color_map, theme["colors"]) is a sequence of      *)
(* key/value records with distinct keys, in insertion order; a dict that   *)
(* is only probed (a color group, all_colors, bindings, a rule, settings)  *)
(* is a function whose DOMAIN is its key set.                              *)
(***************************************************************************)
EXTENDS Naturals, Sequences, FiniteSets, TLC

VARIABLES
    color_map,    \* self.color_map: ordered dict, group key -> color group
    all_colors,   \* self.all_colors: the flattened dict, color name -> value
    bindings,     \* self.bindings: dict, category -> (element -> color name)
    call,         \* the method last called and its argument
    ret,          \* what that call returned or raised
    theme,        \* the theme template document in the --input file
    pc,           \* "start", "called", "applied", "exit0" or "exit1"
    stdout,       \* what main has printed, in order
    outfile       \* the file named by --output

vars == <<color_map, all_colors, bindings, call, ret, theme, pc, stdout, outfile>>

----------------------------------------------------------------------------
(* Bounds and input alphabets *)

\* Longest reference string handed to a lookup.
MaxLen == 3

\* Most rules in a theme's tokenColors list.
MaxRules == 2

Chars == {"a", "b", ".", "#"}

Strings(n) == UNION {[1..k -> Chars] : k \in 0..n}

\* The reference strings handed to the lookups.
Refs == Strings(MaxLen)

\* Group keys, color names, category keys and element names of the tables.
Keys == {<<"a">>, <<"b">>}

\* Values a color group may hold; JSON allows any string, not only "#...".
Literals == {<<"#", "a">>, <<"#", "b">>}

NoString == <<>>

----------------------------------------------------------------------------
(* Python's str and dict primitives *)

StartsWith(s, c) == Len(s) > 0 /\ s[1] = c

Contains(s, c) == \E i \in DOMAIN s : s[i] = c

RECURSIVE Count(_, _)
Count(s, c) ==
    IF s = <<>> THEN 0
    ELSE (IF Head(s) = c THEN 1 ELSE 0) + Count(Tail(s), c)

RECURSIVE Split(_, _)
Split(s, c) ==
    IF s = <<>> THEN << <<>> >>
    ELSE LET rest == Split(Tail(s), c)
         IN  IF Head(s) = c
             THEN << <<>> >> \o rest
             ELSE << <<Head(s)>> \o Head(rest) >> \o Tail(rest)

\* `k in d` and `d[k]` of an ordered dict.
HasKey(d, k) == \E i \in DOMAIN d : d[i].key = k

Lookup(d, k) == d[CHOOSE i \in DOMAIN d : d[i].key = k].val

EmptyDict == [k \in {} |-> NoString]

\* All dicts with keys among ks and values among vs.
Dicts(ks, vs) == UNION {[d -> vs] : d \in SUBSET ks}

\* All ordered dicts with keys among ks and values among vs.
OrderedDicts(ks, vs) ==
    {s \in UNION {[1..n -> [key : ks, val : vs]] : n \in 0..Cardinality(ks)} :
        \A i, j \in DOMAIN s : i # j => s[i].key # s[j].key}

\* F applied to the value of e, with e evaluated once (a local variable
\* assigned the result of a call).
With(e, F(_)) == CHOOSE y \in {F(x) : x \in {e}} : TRUE

----------------------------------------------------------------------------
(* Outcomes: a returned value, or the exception raised *)

Ok(v) == [ok |-> TRUE, val |-> v, err |-> "none"]

Raise(kind, name) == [ok |-> FALSE, val |-> name, err |-> kind]

----------------------------------------------------------------------------
(* ColorMappings.__init__ *)

\* A later group overrides the value of a name already present.
AddGroupLastWins(acc, gr) ==
    [n \in DOMAIN acc \cup DOMAIN gr |->
        IF n \in DOMAIN gr THEN gr[n] ELSE acc[n]]

\* The inner loop over one group: a name already in all_colors keeps its
\* value.
AddGroup(acc, gr) ==
    [n \in DOMAIN acc \cup DOMAIN gr |->
        IF n \in DOMAIN acc THEN acc[n] ELSE gr[n]]

\* for gr in self.color_map.values(): ... from group i on.
RECURSIVE BuildAllColors(_, _, _)
BuildAllColors(colors, i, acc) ==
    IF i > Len(colors) THEN acc
    ELSE BuildAllColors(colors, i + 1, AddGroup(acc, colors[i].val))

----------------------------------------------------------------------------
(* ColorMappings._decompose_name *)

Decomposed(has, q, n) ==
    [ok |-> TRUE, has_qual |-> has, qual |-> q, name |-> n,
     val |-> NoString, err |-> "none"]

\* Splits at the first '.' and never raises.
DecomposeAtFirstDot(name) ==
    IF ~Contains(name, ".") THEN Decomposed(FALSE, NoString, name)
    ELSE LET i == CHOOSE k \in DOMAIN name :
                      name[k] = "." /\ \A j \in 1..(k - 1) : name[j] # "."
         IN  Decomposed(TRUE, SubSeq(name, 1, i - 1),
                        SubSeq(name, i + 1, Len(name)))

decompose_name(name) ==
    IF ~Contains(name, ".") THEN Decomposed(FALSE, NoString, name)
    ELSE IF Count(name, ".") > 1
         THEN [ok |-> FALSE, has_qual |-> FALSE, qual |-> NoString,
               name |-> NoString, val |-> name, err |-> "MalformedName"]
         ELSE LET parts == Split(name, ".")
              IN  Decomposed(TRUE, parts[1], parts[2])

----------------------------------------------------------------------------
(* ColorMappings.get_color_for_name *)

\* A qualified name answered from the flattened table.
GetColorIgnoringQualifier(color) ==
    LET Body(d) ==
            IF ~d.ok THEN Raise(d.err, d.val)
            ELSE IF d.name \notin DOMAIN all_colors
                 THEN Raise("ColorNotFound", d.name)
                 ELSE Ok(all_colors[d.name])
    IN  With(decompose_name(color), Body)

get_color_for_name(color) ==
    LET Body(d) ==
            IF ~d.ok THEN Raise(d.err, d.val)
            ELSE IF ~d.has_qual
            THEN IF d.name \notin DOMAIN all_colors
                 THEN Raise("ColorNotFound", d.name)
                 ELSE Ok(all_colors[d.name])
            ELSE IF ~HasKey(color_map, d.qual)
                 THEN Raise("GroupNotFound", d.qual)
                 ELSE LET gr == Lookup(color_map, d.qual)
                      IN  IF d.name \notin DOMAIN gr
                          THEN Raise("ColorNotFound", d.name)
                          ELSE Ok(gr[d.name])
    IN  With(decompose_name(color), Body)

----------------------------------------------------------------------------
(* ColorMappings.get_color_name_for_binding *)

\* An unqualified binding name taken as a color name.
BindingNameOrColorName(binding_name) ==
    LET Body(d) ==
            IF ~d.ok THEN Raise(d.err, d.val)
            ELSE IF ~d.has_qual THEN Ok(d.name)
            ELSE IF d.qual \notin DOMAIN bindings
            THEN Raise("CategoryNotFound", d.qual)
            ELSE IF d.name \notin DOMAIN bindings[d.qual]
                 THEN Raise("ElementNotFound", d.name)
                 ELSE Ok(bindings[d.qual][d.name])
    IN  With(decompose_name(binding_name), Body)

get_color_name_for_binding(binding_name) ==
    LET Body(d) ==
            IF ~d.ok THEN Raise(d.err, d.val)
            ELSE IF ~d.has_qual
            THEN Raise("UnqualifiedBinding", binding_name)
            ELSE IF d.qual \notin DOMAIN bindings
            THEN Raise("CategoryNotFound", d.qual)
            ELSE LET cat == bindings[d.qual]
                 IN  IF d.name \notin DOMAIN cat
                     THEN Raise("ElementNotFound", d.name)
                     ELSE Ok(cat[d.name])
    IN  With(decompose_name(binding_name), Body)

----------------------------------------------------------------------------
(* ColorMappings.get_color_for_binding *)

\* Returns the bound color name without resolving it to a value.
GetColorNameOnly(binding_name) == get_color_name_for_binding(binding_name)

\* Falls back to the unqualified name when the qualified color lookup fails.
GetColorWithRetry(binding_name) ==
    LET Retry(b, c) ==
            IF c.ok \/ c.err = "MalformedName" THEN c
            ELSE get_color_for_name(decompose_name(b.val).name)
        Body(b) ==
            IF ~b.ok THEN b
            ELSE LET Again(c) == Retry(b, c)
                 IN  With(get_color_for_name(b.val), Again)
    IN  With(get_color_name_for_binding(binding_name), Body)

get_color_for_binding(binding_name) ==
    LET Body(b) == IF ~b.ok THEN b ELSE get_color_for_name(b.val)
    IN  With(get_color_name_for_binding(binding_name), Body)

----------------------------------------------------------------------------
(* ColorMappings.apply_to_theme *)

\* The outcome of rewriting part of the document: the rewritten part, the
\* number of get_color_for_binding calls made, and the exception if one was
\* raised (the caller then never sees val).
Done(v, n) == [ok |-> TRUE, val |-> v, calls |-> n, err |-> "none"]

Failed(v, n, kind) == [ok |-> FALSE, val |-> v, calls |-> n, err |-> kind]

\* Resolves every value, literal or not.
ResolveAlways(value) ==
    LET Body(c) == IF c.ok THEN Done(c.val, 1) ELSE Failed(value, 1, c.err)
    IN  With(get_color_for_binding(value), Body)

\* if not value.startswith("#"): value = self.get_color_for_binding(value)
ResolveUnlessLiteral(value) ==
    IF StartsWith(value, "#") THEN Done(value, 0)
    ELSE LET Body(c) ==
                 IF c.ok THEN Done(c.val, 1) ELSE Failed(value, 1, c.err)
         IN  With(get_color_for_binding(value), Body)

\* for themeColor in theme["colors"]: ... from entry i on.
RECURSIVE RewriteColors(_, _, _)
RewriteColors(colors, i, n) ==
    IF i > Len(colors) THEN Done(colors, n)
    ELSE LET Body(r) ==
                 IF ~r.ok THEN Failed(colors, n + r.calls, r.err)
                 ELSE RewriteColors([colors EXCEPT ![i].val = r.val], i + 1,
                                    n + r.calls)
         IN  With(ResolveUnlessLiteral(colors[i].val), Body)

\* Writes the field whether or not the settings had it.
RewriteFieldAdding(settings, field_name) ==
    LET Body(r) ==
            IF ~r.ok THEN Failed(settings, r.calls, r.err)
            ELSE Done([f \in DOMAIN settings \cup {field_name} |->
                          IF f = field_name THEN r.val ELSE settings[f]],
                      r.calls)
    IN  With(IF field_name \in DOMAIN settings
             THEN ResolveUnlessLiteral(settings[field_name])
             ELSE Done(<<"#">>, 0), Body)

\* if field_name in settings: ... settings[field_name] = ...
RewriteField(settings, field_name) ==
    IF field_name \notin DOMAIN settings THEN Done(settings, 0)
    ELSE LET Body(r) ==
                 IF ~r.ok THEN Failed(settings, r.calls, r.err)
                 ELSE Done([settings EXCEPT ![field_name] = r.val], r.calls)
         IN  With(ResolveUnlessLiteral(settings[field_name]), Body)

\* The body of the loop over token_colors, for one rule: foreground first,
\* then background.
RewriteRule(obj) ==
    IF "settings" \notin DOMAIN obj THEN Done(obj, 0)
    ELSE LET Background(fg, bg) ==
                 IF ~bg.ok THEN Failed(obj, fg.calls + bg.calls, bg.err)
                 ELSE Done([obj EXCEPT !.settings = bg.val],
                           fg.calls + bg.calls)
             Foreground(fg) ==
                 IF ~fg.ok THEN Failed(obj, fg.calls, fg.err)
                 ELSE LET Body(bg) == Background(fg, bg)
                      IN  With(RewriteField(fg.val, "background"), Body)
         IN  With(RewriteField(obj.settings, "foreground"), Foreground)

\* for obj in token_colors: ... from rule i on.
RECURSIVE RewriteRules(_, _, _)
RewriteRules(token_colors, i, n) ==
    IF i > Len(token_colors) THEN Done(token_colors, n)
    ELSE LET Body(r) ==
                 IF ~r.ok THEN Failed(token_colors, n + r.calls, r.err)
                 ELSE RewriteRules([token_colors EXCEPT ![i] = r.val], i + 1,
                                   n + r.calls)
         IN  With(RewriteRule(token_colors[i]), Body)

\* Leaves a reference that does not resolve as it is and goes on.
ApplySkippingFailures(doc) ==
    LET Keep(v) == IF StartsWith(v, "#") \/ ~get_color_for_binding(v).ok
                   THEN v ELSE get_color_for_binding(v).val
    IN  Done([doc EXCEPT
                !.colors = [i \in DOMAIN doc.colors |->
                               [doc.colors[i] EXCEPT !.val = Keep(@)]],
                !.tokenColors = [i \in DOMAIN doc.tokenColors |->
                    LET obj == doc.tokenColors[i]
                    IN  IF "settings" \notin DOMAIN obj THEN obj
                        ELSE [obj EXCEPT !.settings =
                                 [f \in DOMAIN obj.settings |->
                                     IF f \in {"foreground", "background"}
                                     THEN Keep(obj.settings[f])
                                     ELSE obj.settings[f]]]]], 0)

apply_to_theme(doc) ==
    LET AfterRules(c, t) ==
            IF ~t.ok THEN Failed(doc, t.calls, t.err)
            ELSE Done([doc EXCEPT !.colors = c.val, !.tokenColors = t.val],
                      t.calls)
        AfterColors(c) ==
            IF ~c.ok THEN Failed(doc, c.calls, c.err)
            ELSE LET Body(t) == AfterRules(c, t)
                 IN  With(RewriteRules(doc.tokenColors, 1, c.calls), Body)
    IN  With(RewriteColors(doc.colors, 1, 0), AfterColors)

----------------------------------------------------------------------------
(* Inputs *)

\* Color tables of the color lookups: two groups that may share names.
ColorTables == OrderedDicts(Keys, Dicts(Keys, Literals))

\* Tables of the binding lookups.  A binding may name a color that exists,
\* one that does not, a qualified color, or a malformed name.
BindColorTables == OrderedDicts(Keys, Dicts({<<"a">>}, Literals))

BindTargets ==
    {<<"a">>, <<"b">>, <<"b", ".", "a">>, <<"a", ".", "b", ".", "a">>}

BindTables == Dicts({<<"a">>}, Dicts({<<"a">>}, BindTargets))

\* Tables of the theme rewriter; a color value need not be a literal.
ThemeColorTables ==
    {<<>>} \cup {<<[key |-> <<"a">>, val |-> gr]>> :
                 gr \in [{<<"a">>} -> {<<"#", "a">>, <<"b">>}]}

ThemeBindTables ==
    {EmptyDict} \cup {[cat \in {<<"a">>} |-> el] : el \in [{<<"a">>} -> {<<"a">>}]}

\* Values of the theme's colors: a literal or a binding reference.
ThemeValues == {<<"#", "b">>, <<"a", ".", "a">>}

\* Values of a rule's foreground: a literal or a binding reference.
ForegroundValues == {<<"#", "b">>, <<"a", ".", "a">>}

\* Values of a rule's background: a literal or an unqualified reference.
BackgroundValues == {<<"#", "b">>, <<"a">>}

FontStyle == <<"b">>

SettingsSet ==
    UNION {{[f \in d \cup {"fontStyle"} |->
                IF f = "fontStyle" THEN FontStyle ELSE m[f]] :
            m \in {m \in [d -> ForegroundValues \cup BackgroundValues] :
                      \A f \in d : m[f] \in IF f = "foreground"
                                            THEN ForegroundValues
                                            ELSE BackgroundValues}} :
           d \in SUBSET {"foreground", "background"}}

Rules ==
    {[scope |-> "s"]} \cup {[scope |-> "s", settings |-> st] : st \in SettingsSet}

Themes ==
    [name : {"t"},
     colors : OrderedDicts({"k1", "k2"}, ThemeValues),
     tokenColors : UNION {[1..n -> Rules] : n \in 0..MaxRules}]

\* A theme with one value of interest: in colors, or in a rule's foreground
\* or background.
OneValueThemes(value) ==
    {[name |-> "t", colors |-> <<[key |-> "k1", val |-> value]>>,
      tokenColors |-> <<>>],
     [name |-> "t", colors |-> <<>>,
      tokenColors |-> <<[scope |-> "s", settings |-> [foreground |-> value]]>>],
     [name |-> "t", colors |-> <<>>,
      tokenColors |-> <<[scope |-> "s", settings |-> [background |-> value]]>>]}

OneValueDocs == UNION {OneValueThemes(ref) : ref \in Refs}

NoTheme == [name |-> "none", colors |-> <<>>, tokenColors |-> <<>>]

OldTheme == [name |-> "old", colors |-> <<>>, tokenColors |-> <<>>]

NoFile == [exists |-> FALSE, content |-> NoTheme]

OldFile == [exists |-> TRUE, content |-> OldTheme]

NoCall == [op |-> "none", arg |-> NoString, to_file |-> FALSE]

----------------------------------------------------------------------------
(* Initial states: the ColorMappings object as constructed by load *)

Constructed(colors, binds) ==
    /\ color_map = colors
    /\ all_colors = BuildAllColors(colors, 1, EmptyDict)
    /\ bindings = binds
    /\ call = NoCall
    /\ ret = Ok(NoString)
    /\ pc = "start"
    /\ stdout = <<>>

InitColor ==
    /\ \E colors \in ColorTables : Constructed(colors, EmptyDict)
    /\ theme = NoTheme
    /\ outfile = NoFile

InitBind ==
    /\ \E colors \in BindColorTables, binds \in BindTables :
           Constructed(colors, binds)
    /\ theme = NoTheme
    /\ outfile = NoFile

Init ==
    /\ \E colors \in ThemeColorTables, binds \in ThemeBindTables :
           Constructed(colors, binds)
    /\ theme \in Themes
    /\ outfile \in {NoFile, OldFile}

----------------------------------------------------------------------------
(* Operations *)

Called(op, arg, result) ==
    /\ pc' = "called"
    /\ call' = [op |-> op, arg |-> arg, to_file |-> FALSE]
    /\ ret' = result
    /\ UNCHANGED <<color_map, all_colors, bindings, theme, stdout, outfile>>

DecomposeName ==
    /\ pc = "start"
    /\ \E name \in Refs : Called("_decompose_name", name, decompose_name(name))

GetColorForName ==
    /\ pc = "start"
    /\ \E color \in Refs :
           Called("get_color_for_name", color, get_color_for_name(color))

GetColorNameForBinding ==
    /\ pc = "start"
    /\ \E binding_name \in Refs :
           Called("get_color_name_for_binding", binding_name,
                  get_color_name_for_binding(binding_name))

GetColorForBinding ==
    /\ pc = "start"
    /\ \E binding_name \in Refs :
           Called("get_color_for_binding", binding_name,
                  get_color_for_binding(binding_name))

\* color_map.apply_to_theme(themeFile), the file holding one of docs.
ApplyToTheme(docs) ==
    /\ pc = "start"
    /\ \E doc \in docs :
        /\ pc' = "applied"
        /\ theme' = doc
        /\ call' = [op |-> "apply_to_theme", arg |-> NoString,
                    to_file |-> FALSE]
        /\ ret' = apply_to_theme(doc)
        /\ UNCHANGED <<color_map, all_colors, bindings, stdout, outfile>>

\* main from its try block on, with or without --output.
Main(has_output) ==
    /\ pc = "start"
    /\ call' = [op |-> "main", arg |-> NoString, to_file |-> has_output]
    /\ LET r == apply_to_theme(theme)
       IN  /\ ret' = r
           /\ IF r.ok
              THEN /\ pc' = "exit0"
                   /\ IF has_output
                      THEN /\ outfile' = [exists |-> TRUE, content |-> r.val]
                           /\ stdout' = stdout
                      ELSE /\ stdout' = Append(stdout, [kind |-> "document",
                                                        doc |-> r.val,
                                                        err |-> "none"])
                           /\ outfile' = outfile
              ELSE /\ pc' = "exit1"
                   /\ stdout' = Append(stdout, [kind |-> "error",
                                                doc |-> NoTheme,
                                                err |-> r.err])
                   /\ outfile' = outfile
    /\ UNCHANGED <<color_map, all_colors, bindings, theme>>

----------------------------------------------------------------------------
(* Specifications *)

NextColor == GetColorForName

NextBind ==
    \/ DecomposeName
    \/ GetColorForName
    \/ GetColorNameForBinding
    \/ GetColorForBinding
    \/ ApplyToTheme(OneValueDocs)

Next ==
    \/ ApplyToTheme({theme})
    \/ \E has_output \in BOOLEAN : Main(has_output)

\* Color lookups over color tables of two groups.
SpecColor == InitColor /\ [][NextColor]_vars

\* Every lookup, and the rewriter on one value, over color and binding tables.
SpecBind == InitBind /\ [][NextBind]_vars

\* The rewriter and main over whole theme documents.
Spec == Init /\ [][Next]_vars

----------------------------------------------------------------------------
(* Vocabulary of the properties, stated on the tables and the strings
   themselves and not through the lookup operators *)

Dots(s) == Cardinality({i \in DOMAIN s : s[i] = "."})

\* The parts of a name with exactly one '.'.
DotAt(s) == CHOOSE i \in DOMAIN s : s[i] = "."

Prefix(s) == SubSeq(s, 1, DotAt(s) - 1)

Suffix(s) == SubSeq(s, DotAt(s) + 1, Len(s))

IsLiteral(v) == v # <<>> /\ Head(v) = "#"

\* The positions of the groups of color_map that hold a color name.
GroupsWith(n) == {i \in DOMAIN color_map : n \in DOMAIN color_map[i].val}

FirstGroupWith(n) ==
    CHOOSE i \in GroupsWith(n) : \A j \in GroupsWith(n) : i <= j

GroupsNamed(q) == {i \in DOMAIN color_map : color_map[i].key = q}

\* What the color table answers for a color name.
ExpectedColor(c) ==
    IF Dots(c) > 1 THEN Raise("MalformedName", c)
    ELSE IF Dots(c) = 0
    THEN IF GroupsWith(c) = {} THEN Raise("ColorNotFound", c)
         ELSE Ok(color_map[FirstGroupWith(c)].val[c])
    ELSE IF GroupsNamed(Prefix(c)) = {} THEN Raise("GroupNotFound", Prefix(c))
    ELSE LET gr == color_map[CHOOSE i \in GroupsNamed(Prefix(c)) : TRUE].val
         IN  IF Suffix(c) \in DOMAIN gr THEN Ok(gr[Suffix(c)])
             ELSE Raise("ColorNotFound", Suffix(c))

\* What the binding table answers for a binding reference.
ExpectedBinding(b) ==
    IF Dots(b) > 1 THEN Raise("MalformedName", b)
    ELSE IF Dots(b) = 0 THEN Raise("UnqualifiedBinding", b)
    ELSE IF Prefix(b) \notin DOMAIN bindings
    THEN Raise("CategoryNotFound", Prefix(b))
    ELSE IF Suffix(b) \notin DOMAIN bindings[Prefix(b)]
    THEN Raise("ElementNotFound", Suffix(b))
    ELSE Ok(bindings[Prefix(b)][Suffix(b)])

\* The rules of a document that have settings, and the values the rewriter
\* is to look at.
RulesWithSettings(doc) ==
    {i \in DOMAIN doc.tokenColors : "settings" \in DOMAIN doc.tokenColors[i]}

ColorFields(doc, i) ==
    {"foreground", "background"} \cap DOMAIN doc.tokenColors[i].settings

ThemeValuesOf(doc) ==
    {doc.colors[i].val : i \in DOMAIN doc.colors}
    \cup UNION {{doc.tokenColors[i].settings[f] : f \in ColorFields(doc, i)} :
                i \in RulesWithSettings(doc)}

Resolves(v) == IsLiteral(v) \/ get_color_for_binding(v).ok

Resolved(v) == IF IsLiteral(v) THEN v ELSE get_color_for_binding(v).val

TableValues == UNION {{gr.val[n] : n \in DOMAIN gr.val} :
                      gr \in {color_map[i] : i \in DOMAIN color_map}}

----------------------------------------------------------------------------
(* C1: an unqualified color name that occurs in one or more groups resolves
   to the value of the first group, in the table's order, that holds it; a
   later group with the same name never overrides it. *)
C1_FirstGroupWins ==
    (/\ call.op = "get_color_for_name"
     /\ Dots(call.arg) = 0
     /\ GroupsWith(call.arg) # {})
    => ret = Ok(color_map[FirstGroupWith(call.arg)].val[call.arg])

\* The name is in two groups with different values.
C1_Witness ==
    /\ call.op = "get_color_for_name"
    /\ Dots(call.arg) = 0
    /\ Cardinality(GroupsWith(call.arg)) = 2
    /\ color_map[1].val[call.arg] # color_map[2].val[call.arg]
    /\ ret.ok

(* C2: a qualified color reference group.name is resolved inside the named
   group only: that group's value for name, GroupNotFound when there is no
   such group, ColorNotFound when the group lacks name, whatever the other
   groups and the flattened table hold. *)
C2_QualifiedInGroupOnly ==
    (call.op = "get_color_for_name" /\ Dots(call.arg) = 1)
    => LET q == Prefix(call.arg)
           n == Suffix(call.arg)
       IN  /\ GroupsNamed(q) = {} => ret = Raise("GroupNotFound", q)
           /\ \A i \in GroupsNamed(q) :
                  /\ n \in DOMAIN color_map[i].val
                         => ret = Ok(color_map[i].val[n])
                  /\ n \notin DOMAIN color_map[i].val
                         => ret = Raise("ColorNotFound", n)

\* The named group's value is returned though the flattened table holds
\* another value for the name.
C2_Witness ==
    /\ call.op = "get_color_for_name"
    /\ Dots(call.arg) = 1
    /\ ret.ok
    /\ Suffix(call.arg) \in DOMAIN all_colors
    /\ all_colors[Suffix(call.arg)] # ret.val

(* C4: a binding reference with no '.' fails with UnqualifiedBinding whatever
   the binding and color tables hold, also when the string is a color name;
   so apply_to_theme fails on a theme with a value that is not a literal and
   has no qualifier. *)
C4_UnqualifiedBindingFails ==
    /\ (/\ call.op \in {"get_color_name_for_binding", "get_color_for_binding"}
        /\ Dots(call.arg) = 0)
       => ret = Raise("UnqualifiedBinding", call.arg)
    /\ (/\ call.op = "apply_to_theme"
        /\ \E v \in ThemeValuesOf(theme) : ~IsLiteral(v) /\ Dots(v) = 0)
       => ~ret.ok /\ ret.err = "UnqualifiedBinding"

\* The theme's value is the name of a color of the table, and the rewriter
\* fails on it all the same.
C4_Witness ==
    /\ call.op = "apply_to_theme"
    /\ \E v \in ThemeValuesOf(theme) :
           ~IsLiteral(v) /\ Dots(v) = 0 /\ v \in DOMAIN all_colors
    /\ ~ret.ok

(* C5: get_color_for_binding(ref) is the color table's answer for the color
   name the binding table gives for ref, qualified or not; when the binding
   lookup fails its failure is the outcome, and when the color lookup fails
   its failure is the outcome, unwrapped and with no second attempt. *)
C5_BindingThenColor ==
    call.op = "get_color_for_binding"
    => ret = IF ExpectedBinding(call.arg).ok
             THEN ExpectedColor(ExpectedBinding(call.arg).val)
             ELSE ExpectedBinding(call.arg)

\* The binding holds a qualified color name whose color lookup fails though
\* the unqualified name is a color of the table.
C5_Witness ==
    /\ call.op = "get_color_for_binding"
    /\ ExpectedBinding(call.arg).ok
    /\ Dots(ExpectedBinding(call.arg).val) = 1
    /\ Suffix(ExpectedBinding(call.arg).val) \in DOMAIN all_colors
    /\ ~ret.ok
    /\ ret.err \in {"GroupNotFound", "ColorNotFound"}

(* C10: _decompose_name splits three ways on the number of '.': none gives
   no qualifier and the whole string; one gives a prefix and a suffix that,
   joined by '.', are the input; more than one fails with MalformedName, and
   the color lookup and the binding lookups fail so on such a name whatever
   the tables hold. *)
C10_DecomposeThreeWay ==
    /\ call.op = "_decompose_name"
       => /\ Dots(call.arg) = 0
                => ret.ok /\ ~ret.has_qual /\ ret.name = call.arg
          /\ Dots(call.arg) = 1
                => /\ ret.ok /\ ret.has_qual
                   /\ ret.qual \o <<".">> \o ret.name = call.arg
          /\ Dots(call.arg) > 1
                => ~ret.ok /\ ret.err = "MalformedName" /\ ret.val = call.arg
    /\ (/\ call.op \in {"get_color_for_name", "get_color_name_for_binding",
                        "get_color_for_binding"}
        /\ Dots(call.arg) > 1)
       => ret = Raise("MalformedName", call.arg)

\* A binding lookup of a name with two '.' whose first part is a category
\* of the table.
C10_Witness ==
    /\ call.op = "get_color_name_for_binding"
    /\ Dots(call.arg) = 2
    /\ Len(call.arg) = 3
    /\ <<call.arg[1]>> \in DOMAIN bindings
    /\ ret.err = "MalformedName"

----------------------------------------------------------------------------
(* The document apply_to_theme returned, against the document it was given *)

Applied == pc = "applied" /\ ret.ok

\* Every value the rewriter looks at is what Want makes of the input's value.
ValuesAre(in, out, Want(_)) ==
    /\ Len(out.colors) = Len(in.colors)
    /\ \A i \in DOMAIN in.colors : out.colors[i].val = Want(in.colors[i].val)
    /\ Len(out.tokenColors) = Len(in.tokenColors)
    /\ RulesWithSettings(out) = RulesWithSettings(in)
    /\ \A i \in RulesWithSettings(in) :
           /\ ColorFields(out, i) = ColorFields(in, i)
           /\ \A f \in ColorFields(in, i) :
                  out.tokenColors[i].settings[f]
                      = Want(in.tokenColors[i].settings[f])

\* Everything but the values the rewriter looks at is as in the input.
SameFrame(in, out) ==
    /\ DOMAIN out = DOMAIN in
    /\ out.name = in.name
    /\ Len(out.colors) = Len(in.colors)
    /\ \A i \in DOMAIN in.colors : out.colors[i].key = in.colors[i].key
    /\ Len(out.tokenColors) = Len(in.tokenColors)
    /\ \A i \in DOMAIN in.tokenColors :
           LET a == in.tokenColors[i]
               b == out.tokenColors[i]
           IN  /\ DOMAIN b = DOMAIN a
               /\ \A f \in DOMAIN a \ {"settings"} : b[f] = a[f]
               /\ "settings" \in DOMAIN a
                      => /\ DOMAIN b.settings = DOMAIN a.settings
                         /\ \A f \in DOMAIN a.settings
                                       \ {"foreground", "background"} :
                                b.settings[f] = a.settings[f]

(* C3: apply_to_theme replaces every value of colors, and every foreground
   and background of a rule's settings, that does not begin with '#' by what
   get_color_for_binding returns for it, and leaves every value that begins
   with '#' as it is; it succeeds when every such lookup does. *)
C3_ReferencesReplaced ==
    pc = "applied"
    => /\ ret.ok <=> \A v \in ThemeValuesOf(theme) : Resolves(v)
       /\ ret.ok => ValuesAre(theme, ret.val, Resolved)

\* colors = {a: {a: "#a"}}, bindings = {a: {a: "a"}} and the theme's first
\* color "a.a" becomes "#a".
C3_Witness ==
    /\ Applied
    /\ color_map = <<[key |-> <<"a">>, val |-> [n \in {<<"a">>} |-> <<"#", "a">>]]>>
    /\ bindings = [c \in {<<"a">>} |-> [e \in {<<"a">>} |-> <<"a">>]]
    /\ Len(theme.colors) > 0
    /\ theme.colors[1].val = <<"a", ".", "a">>
    /\ ret.val.colors[1].val = <<"#", "a">>
    /\ \E v \in ThemeValuesOf(theme) : IsLiteral(v)

(* C6: main prints or writes the document only when every reference of the
   whole document resolved; when one does not, at whatever place, nothing of
   the document is printed, the output file is neither created nor
   truncated, the error is printed and the run ends abnormally. *)
C6_NoPartialOutput ==
    [][call'.op = "main"
       => IF \A v \in ThemeValuesOf(theme) : Resolves(v)
          THEN /\ pc' = "exit0"
               /\ ValuesAre(theme, ret'.val, Resolved)
               /\ IF call'.to_file
                  THEN /\ outfile' = [exists |-> TRUE, content |-> ret'.val]
                       /\ stdout' = stdout
                  ELSE /\ outfile' = outfile
                       /\ stdout' = <<[kind |-> "document", doc |-> ret'.val,
                                       err |-> "none"]>>
          ELSE /\ pc' = "exit1"
               /\ outfile' = outfile
               /\ Len(stdout') = 1
               /\ stdout'[1].kind = "error"
               /\ stdout'[1].err # "none"]_vars

\* A first color resolved, a later reference did not, and the output file
\* that existed keeps its content.
C6_Witness ==
    /\ pc = "exit1"
    /\ call.to_file
    /\ outfile = OldFile
    /\ Len(theme.colors) > 0
    /\ ~IsLiteral(theme.colors[1].val)
    /\ Resolves(theme.colors[1].val)

(* C7, restated to what the code guarantees: after a successful apply_to_theme every value of colors
   and every present settings.foreground and settings.background either
   begins with '#' or is a value stored in the color table; all of them
   begin with '#' when every value of the color table does. *)
C7_LiteralOrTableValue ==
    Applied
    => /\ \A v \in ThemeValuesOf(ret.val) : IsLiteral(v) \/ v \in TableValues
       /\ (\A c \in TableValues : IsLiteral(c))
              => \A v \in ThemeValuesOf(ret.val) : IsLiteral(v)

\* A reference was replaced by a value of a color table of literals.
C7_Witness ==
    /\ Applied
    /\ \A c \in TableValues : IsLiteral(c)
    /\ \E v \in ThemeValuesOf(theme) : ~IsLiteral(v)

(* C7, as the specification words it: after a successful apply_to_theme every value of colors
   and every present settings.foreground and settings.background begins
   with '#', for every color table and binding table. *)
C7_AllLiteral == Applied => \A v \in ThemeValuesOf(ret.val) : IsLiteral(v)

(* C8: apply_to_theme on a document whose values all begin with '#'
   succeeds, performs no lookup and returns the document as it was given,
   for every color table and binding table. *)
C8_LiteralRoundTrip ==
    (pc = "applied" /\ \A v \in ThemeValuesOf(theme) : IsLiteral(v))
    => ret.ok /\ ret.calls = 0 /\ ret.val = theme

\* Two literal colors and a rule with a literal foreground and background,
\* under empty tables.
C8_Witness ==
    /\ pc = "applied"
    /\ color_map = <<>>
    /\ bindings = EmptyDict
    /\ Len(theme.colors) = 2
    /\ \E i \in RulesWithSettings(theme) :
           ColorFields(theme, i) = {"foreground", "background"}
    /\ \A v \in ThemeValuesOf(theme) : IsLiteral(v)
    /\ ret.ok

(* C9: apply_to_theme changes nothing but the values of colors and the
   foreground and background of rules' settings: the keys of colors and
   their order, the number and order of rules, every other field of a rule
   and of settings and every other region are as they were, a rule with no
   settings or settings with neither field gets no field added, and the
   color table, its flattened index and the binding table are unchanged. *)
C9_OnlyColorValuesChange ==
    [][call'.op = "apply_to_theme"
       => /\ color_map' = color_map
          /\ all_colors' = all_colors
          /\ bindings' = bindings
          /\ ret'.ok => SameFrame(theme', ret'.val)]_vars

\* A rule with no settings, a rule whose settings have no foreground, and a
\* color that was replaced.
C9_Witness ==
    /\ Applied
    /\ ret.val # theme
    /\ \E i \in DOMAIN theme.tokenColors : i \notin RulesWithSettings(theme)
    /\ \E i \in RulesWithSettings(theme) : "foreground" \notin ColorFields(theme, i)

============================================================================
